---- MODULE Spec2Model ----
(***************************************************************************)
(* Model of Open3D's geometry::PointCloud (src/Open3D/Geometry/            *)
(* PointCloud.cpp): the point-set operations (Clear, Transform, +=, +),    *)
(* the per-point statistics loops and the CUDA device mirrors.             *)
(***************************************************************************)
EXTENDS Integers, Sequences, FiniteSets, TLC

VARIABLES
    store,       \* object id -> PointCloud (points_, normals_, colors_)
    op,          \* the last point-set operation that ran
    d_handle,    \* d_points_, d_normals_, d_colors_ of the cloud "A"
    heap,        \* device memory: buffer -> [live, owner, copied, content]
    call,        \* the last device-mirror call, its device results and return
    doubleFree,  \* TRUE once cudaFree has been given a buffer that is not live
    job,         \* the statistics function that is running and its operands
    out,         \* the output vector of the running statistics function
    nextIdx,     \* worker -> next loop index the worker will execute
    writers,     \* output slot -> set of workers that have written it
    touched      \* [rd, wr]: the locations the workers have read / written

vars == <<store, op, d_handle, heap, call, doubleFree,
          job, out, nextIdx, writers, touched>>

psVars   == <<store, op>>
devVars  == <<d_handle, heap, call, doubleFree>>
statVars == <<job, out, nextIdx, writers, touched>>

----------------------------------------------------------------------------
(* Bounds *)

MaxInit == 2      \* longest point set in an initial state
MaxLen == 4       \* longest point set an append may produce

----------------------------------------------------------------------------
(* Point sets *)

Objs == {"A", "B"}

\* element of a vector that resize() created and nothing has assigned yet
Uninit == <<"uninit">>

EmptyCloud == [points |-> <<>>, normals |-> <<>>, colors |-> <<>>]

HasPoints(pc) == Len(pc.points) > 0

HasNormals(pc) == Len(pc.points) > 0 /\ Len(pc.normals) = Len(pc.points)

HasColors(pc) == Len(pc.points) > 0 /\ Len(pc.colors) = Len(pc.points)

IsEmpty(pc) == ~HasPoints(pc)

\* Clear that empties the points and forgets the attribute vectors
ClearPointsOnly(pc) == [pc EXCEPT !.points = <<>>]

Clear(pc) == [pc EXCEPT !.points = <<>>, !.normals = <<>>, !.colors = <<>>]

\* 4x4 matrix (tuple of rows) times a homogeneous 4-vector
MatVec4(M, v) ==
    [r \in 1..4 |-> M[r][1] * v[1] + M[r][2] * v[2] + M[r][3] * v[3] + M[r][4] * v[4]]

\* block<3,1>(0,0) of a 4-vector
Block3(v) == <<v[1], v[2], v[3]>>

TransformPoint(M, p) == Block3(MatVec4(M, <<p[1], p[2], p[3], 1>>))

TransformNormal(M, n) == Block3(MatVec4(M, <<n[1], n[2], n[3], 0>>))

Transform(pc, M) ==
    [pc EXCEPT !.points  = [i \in 1..Len(pc.points)  |-> TransformPoint(M, pc.points[i])],
               !.normals = [i \in 1..Len(pc.normals) |-> TransformNormal(M, pc.normals[i])]]

\* a resize that hands out fresh storage and does not keep the old elements
ResizeFresh(v, n) == [i \in 1..n |-> Uninit]

\* std::vector::resize: keeps the first n elements, new elements are not
\* initialised (Eigen::Vector3d's default constructor assigns nothing)
Resize(v, n) == [i \in 1..n |-> IF i <= Len(v) THEN v[i] ELSE Uninit]

\* for (i = 0; i < add; i++) this.f[old + i] = cloud.f[i];  one assignment
\* after the other on the store, so that this and cloud may be one object
RECURSIVE CopyLoop(_, _, _, _, _, _, _)
CopyLoop(st, this, cloud, f, old, add, i) ==
    IF i >= add THEN st
    ELSE CopyLoop([st EXCEPT ![this][f][old + i + 1] = st[cloud][f][i + 1]],
                  this, cloud, f, old, add, i + 1)

\* the attribute test without the "this is empty" alternative
KeepNormalsBothHave(st, this, cloud) ==
    HasNormals(st[this]) /\ HasNormals(st[cloud])

KeepNormals(st, this, cloud) ==
    (~HasPoints(st[this]) \/ HasNormals(st[this])) /\ HasNormals(st[cloud])

KeepColors(st, this, cloud) ==
    (~HasPoints(st[this]) \/ HasColors(st[this])) /\ HasColors(st[cloud])

\* PointCloud::operator+= on the objects this and cloud of the store st
PlusEq(st, this, cloud) ==
    IF IsEmpty(st[cloud]) THEN st
    ELSE
      LET old_vert_num == Len(st[this].points)
          add_vert_num == Len(st[cloud].points)
          new_vert_num == old_vert_num + add_vert_num
          s1 == IF KeepNormals(st, this, cloud)
                THEN CopyLoop([st EXCEPT ![this].normals = Resize(@, new_vert_num)],
                              this, cloud, "normals", old_vert_num, add_vert_num, 0)
                ELSE [st EXCEPT ![this].normals = <<>>]
          s2 == IF KeepColors(s1, this, cloud)
                THEN CopyLoop([s1 EXCEPT ![this].colors = Resize(@, new_vert_num)],
                              this, cloud, "colors", old_vert_num, add_vert_num, 0)
                ELSE [s1 EXCEPT ![this].colors = <<>>]
      IN  CopyLoop([s2 EXCEPT ![this].points = Resize(@, new_vert_num)],
                   this, cloud, "points", old_vert_num, add_vert_num, 0)

\* PointCloud::operator+ : a copy of this, += cloud, returned by value
Plus(st, this, cloud) ==
    PlusEq([st EXCEPT !["R"] = st[this]], "R", cloud)["R"]

\* the transformations the model applies: the identity, and the mirror
\* x -> 1 - x (linear part diag(-1,1,1), translation (1,0,0))
Identity4 == << <<1, 0, 0, 0>>, <<0, 1, 0, 0>>, <<0, 0, 1, 0>>, <<0, 0, 0, 1>> >>

MirrorShiftX == << <<-1, 0, 0, 1>>, <<0, 1, 0, 0>>, <<0, 0, 1, 0>>, <<0, 0, 0, 1>> >>

Transformations == {Identity4, MirrorShiftX}

\* the point set of k points tagged s, with or without normals and colors
MakeCloud(k, hn, hc, s) ==
    [points  |-> [i \in 1..k |-> <<i, s, 0>>],
     normals |-> IF hn THEN [i \in 1..k |-> <<1, i, s>>] ELSE <<>>,
     colors  |-> IF hc THEN [i \in 1..k |-> <<s, i, 1>>] ELSE <<>>]

InitClouds(s) ==
    {MakeCloud(k, hn, hc, s) : k \in 0..MaxInit, hn \in BOOLEAN, hc \in BOOLEAN}

NoOp == [name |-> "none"]

InitPS ==
    /\ \E a \in InitClouds(1), b \in InitClouds(2) :
          store = [o \in Objs \cup {"R"} |->
                     IF o = "A" THEN a ELSE IF o = "B" THEN b ELSE EmptyCloud]
    /\ op = NoOp

\* the temporary that operator+ returned is gone when the next call runs
DropTemp(st) == [st EXCEPT !["R"] = EmptyCloud]

ClearAct(o) ==
    /\ store' = [DropTemp(store) EXCEPT ![o] = Clear(@)]
    /\ op' = [name |-> "Clear", this |-> o]
    /\ UNCHANGED <<devVars, statVars>>

TransformAct(o, M) ==
    /\ store' = [DropTemp(store) EXCEPT ![o] = Transform(@, M)]
    /\ op' = [name |-> "Transform", this |-> o]
    /\ UNCHANGED <<devVars, statVars>>

PlusEqAct(this, cloud) ==
    /\ Len(store[this].points) + Len(store[cloud].points) <= MaxLen
    /\ store' = PlusEq(DropTemp(store), this, cloud)
    /\ op' = [name |-> "PlusEq", this |-> this, cloud |-> cloud]
    /\ UNCHANGED <<devVars, statVars>>

PlusAct(this, cloud) ==
    /\ Len(store[this].points) + Len(store[cloud].points) <= MaxLen
    /\ store' = [store EXCEPT !["R"] = Plus(DropTemp(store), this, cloud)]
    /\ op' = [name |-> "Plus", this |-> this, cloud |-> cloud]
    /\ UNCHANGED <<devVars, statVars>>

----------------------------------------------------------------------------
(* Device mirrors (OPEN3D_USE_CUDA) *)

NumBuffers == 3   \* device buffers that can be allocated at one time

Arrays == <<"points", "normals", "colors">>

ArraySet == {Arrays[i] : i \in 1..3}

NULL == 0

Buffers == 1..NumBuffers

FreeBuffer == [live |-> FALSE, owner |-> "none", copied |-> FALSE, content |-> <<>>]

\* what the device does in one call of UpdateDeviceMemory / ReleaseDeviceMemory:
\* whether cudaFree, cudaMalloc, cudaMemcpy succeed, the buffer cudaMalloc
\* hands out, and the value a call returns when it ends without a return
\* (a result the call never consults after an earlier failure is fixed to TRUE,
\* the buffer to the first one)
DevInputs ==
    {dev \in [free : BOOLEAN, malloc : BOOLEAN, buf : Buffers,
              copy : BOOLEAN, ub : BOOLEAN] :
        /\ ~dev.free => dev.malloc
        /\ ~dev.free \/ ~dev.malloc => dev.buf = 1 /\ dev.copy
        /\ ~dev.free \/ ~dev.malloc \/ ~dev.copy => dev.ub}

\* cudaFree(b) that succeeds
CudaFree(s, b) ==
    [s EXCEPT !.heap[b] = FreeBuffer, !.df = s.df \/ ~s.heap[b].live]

\* a refresh that allocates without freeing the buffer the handle holds
UpdateDeviceMemoryNoFree(s, a, data, dev) ==
    LET res(t, ma, co, r) ==
            [h |-> t.h, heap |-> t.heap, df |-> t.df,
             free |-> "skipped", malloc |-> ma, copy |-> co, ret |-> r]
    IN
    IF ~dev.malloc \/ s.heap[dev.buf].live
    THEN res(s, "fail", "skipped", FALSE)
    ELSE
      LET s2 == [s EXCEPT !.h[a] = dev.buf,
                          !.heap[dev.buf] = [live |-> TRUE, owner |-> a,
                                             copied |-> FALSE, content |-> <<>>]]
      IN
      IF ~dev.copy
      THEN res(s2, "ok", "fail", TRUE)
      ELSE res([s2 EXCEPT !.heap[dev.buf].content = data,
                          !.heap[dev.buf].copied = TRUE],
               "ok", "ok", dev.ub)

\* bool PointCloud::UpdateDeviceMemory(double **d_data, const vector<> &data)
UpdateDeviceMemory(s, a, data, dev) ==
    LET hadBuf == s.h[a] # NULL
        res(t, fr, ma, co, r) ==
            [h |-> t.h, heap |-> t.heap, df |-> t.df,
             free |-> fr, malloc |-> ma, copy |-> co, ret |-> r]
    IN
    IF hadBuf /\ ~dev.free
    THEN res([s EXCEPT !.df = s.df \/ ~s.heap[s.h[a]].live],
             "fail", "skipped", "skipped", FALSE)
    ELSE
      LET s1 == IF hadBuf THEN [CudaFree(s, s.h[a]) EXCEPT !.h[a] = NULL] ELSE s
          fr == IF hadBuf THEN "ok" ELSE "skipped"
      IN
      IF ~dev.malloc \/ s1.heap[dev.buf].live
      THEN res(s1, fr, "fail", "skipped", FALSE)
      ELSE
        LET s2 == [s1 EXCEPT !.h[a] = dev.buf,
                             !.heap[dev.buf] = [live |-> TRUE, owner |-> a, copied |-> FALSE,
                                                content |-> <<>>]]
        IN
        IF ~dev.copy
        THEN res(s2, fr, "ok", "fail", TRUE)
        ELSE res([s2 EXCEPT !.heap[dev.buf].content = data,
                            !.heap[dev.buf].copied = TRUE],
                 fr, "ok", "ok", dev.ub)

\* bool PointCloud::ReleaseDeviceMemory(double **d_data)
ReleaseDeviceMemory(s, a, dev) ==
    LET res(t, fr, r) == [h |-> t.h, heap |-> t.heap, df |-> t.df,
                          free |-> fr, ret |-> r]
    IN
    IF s.h[a] = NULL THEN res(s, "skipped", TRUE)
    ELSE IF ~dev.free
    THEN res([s EXCEPT !.df = s.df \/ ~s.heap[s.h[a]].live], "fail", FALSE)
    ELSE res([CudaFree(s, s.h[a]) EXCEPT !.h[a] = NULL], "ok", dev.ub)

DevState == [h |-> d_handle, heap |-> heap, df |-> doubleFree]

StateOf(r) == [h |-> r.h, heap |-> r.heap, df |-> r.df]

\* UpdateDevicePoints / UpdateDeviceNormals / UpdateDeviceColors: every result
\* the device can give the call on array a
UpdateDeviceArray(s, a) ==
    {UpdateDeviceMemory(s, a, store["A"][a], dev) : dev \in DevInputs}

\* ReleaseDevicePoints / ReleaseDeviceNormals / ReleaseDeviceColors
ReleaseDeviceArray(s, a) ==
    {ReleaseDeviceMemory(s, a, dev) : dev \in DevInputs}

\* X(points) && X(normals) && X(colors), evaluated left to right: the calls
\* that ran, as the sequence of their results
AndChain(update, s) ==
    LET results(t, a) == IF update THEN UpdateDeviceArray(t, a)
                         ELSE ReleaseDeviceArray(t, a)
    IN
    UNION {
      IF ~r1.ret THEN {<<r1>>}
      ELSE UNION {
             IF ~r2.ret THEN {<<r1, r2>>}
             ELSE {<<r1, r2, r3>> : r3 \in results(StateOf(r2), Arrays[3])}
           : r2 \in results(StateOf(r1), Arrays[2])}
    : r1 \in results(s, Arrays[1])}

\* bool PointCloud::UpdateDeviceMemory()
UpdateDeviceMemoryAll(s) == AndChain(TRUE, s)

\* bool PointCloud::ReleaseDeviceMemory()
ReleaseDeviceMemoryAll(s) == AndChain(FALSE, s)

Last(q) == q[Len(q)]

NoCall == [name |-> "none"]

devIdle ==
    /\ d_handle = [a \in ArraySet |-> NULL]
    /\ heap = [b \in Buffers |-> FreeBuffer]
    /\ call = NoCall
    /\ doubleFree = FALSE

Install(r) ==
    /\ d_handle' = r.h
    /\ heap' = r.heap
    /\ doubleFree' = r.df

UpdateOneAct(a) ==
    /\ \E r \in UpdateDeviceArray(DevState, a) :
           /\ Install(r)
           /\ call' = [name |-> "UpdateOne", arr |-> a, hadBuf |-> d_handle[a] # NULL,
                       free |-> r.free, malloc |-> r.malloc, copy |-> r.copy,
                       ret |-> r.ret]
    /\ UNCHANGED <<psVars, statVars>>

ReleaseOneAct(a) ==
    /\ \E r \in ReleaseDeviceArray(DevState, a) :
           /\ Install(r)
           /\ call' = [name |-> "ReleaseOne", arr |-> a, hadBuf |-> d_handle[a] # NULL,
                       free |-> r.free, ret |-> r.ret]
    /\ UNCHANGED <<psVars, statVars>>

ChainCall(name, q) ==
    [name |-> name,
     attempted |-> [i \in 1..Len(q) |-> Arrays[i]],
     results |-> [i \in 1..Len(q) |-> q[i].ret],
     ret |-> Len(q) = 3 /\ \A i \in 1..3 : q[i].ret]

UpdateAllAct ==
    /\ \E q \in UpdateDeviceMemoryAll(DevState) :
           /\ Install(Last(q))
           /\ call' = ChainCall("UpdateAll", q)
    /\ UNCHANGED <<psVars, statVars>>

ReleaseAllAct ==
    /\ \E q \in ReleaseDeviceMemoryAll(DevState) :
           /\ Install(Last(q))
           /\ call' = ChainCall("ReleaseAll", q)
    /\ UNCHANGED <<psVars, statVars>>

InitDevStore ==
    /\ \E a \in {EmptyCloud, MakeCloud(MaxInit, TRUE, FALSE, 1)} :
          store = [o \in Objs \cup {"R"} |-> IF o = "A" THEN a ELSE EmptyCloud]
    /\ op = NoOp

----------------------------------------------------------------------------
(* Statistics functions and their parallel per-point loops *)

MaxPts == 4        \* longest source cloud of a statistics call
MaxTargetPts == 1  \* longest second cloud of a statistics call
NumWorkers == 2    \* threads of the OpenMP team
SqrtScale == 16    \* std::sqrt is computed to 1/SqrtScale, rounded down

Workers == 0..(NumWorkers - 1)

PointDomain == {<<0, 0, 0>>, <<1, 0, 0>>, <<0, 1, 0>>, <<0, 0, 1>>}

TargetDomain == {<<0, 0, 0>>, <<1, 0, 0>>}

RECURSIVE SeqsUpTo(_, _)
SeqsUpTo(S, n) ==
    IF n = 0 THEN {<<>>}
    ELSE LET shorter == SeqsUpTo(S, n - 1)
         IN  shorter \cup {Append(q, x) : q \in {r \in shorter : Len(r) = n - 1}, x \in S}

PointsOnly(pts) == [points |-> pts, normals |-> <<>>, colors |-> <<>>]

Min(a, b) == IF a <= b THEN a ELSE b

\* floor(sqrt(num / den)) in units of 1 / SqrtScale, for num >= 0 and den > 0
Sqrt(num, den) ==
    LET x == (num * SqrtScale * SqrtScale) \div den
    IN  CHOOSE r \in 0..((num \div den + 1) * SqrtScale) :
            r * r <= x /\ (r + 1) * (r + 1) > x

\* what a computation on doubles leaves when it divides by a zero determinant
Garbage == "garbage"

SqDist(p, q) ==
    (p[1] - q[1]) * (p[1] - q[1]) + (p[2] - q[2]) * (p[2] - q[2])
        + (p[3] - q[3]) * (p[3] - q[3])

\* indices of the k points of pts nearest to query, nearest first
RECURSIVE Nearest(_, _, _, _)
Nearest(pts, idxs, query, k) ==
    IF k = 0 \/ idxs = {} THEN <<>>
    ELSE LET j == CHOOSE j \in idxs :
                    \A m \in idxs : SqDist(pts[j], query) <= SqDist(pts[m], query)
         IN  <<j>> \o Nearest(pts, idxs \ {j}, query, k - 1)

\* KDTreeFlann::SearchKNN on the index built over pts: the number of
\* neighbours found and their squared distances, ascending
SearchKNN(pts, query, k) ==
    LET indices == Nearest(pts, 1..Len(pts), query, k)
    IN  [count |-> Len(indices),
         indices |-> indices,
         dists |-> [i \in 1..Len(indices) |-> SqDist(pts[indices[i]], query)]]

\* body of the loop of ComputePointCloudToPointCloudDistance, iteration i
ToPointCloudBody(source, kdtree, i) ==
    LET knn == SearchKNN(kdtree, source[i + 1], 1)
    IN  IF knn.count = 0 THEN 0 ELSE Sqrt(knn.dists[1], 1)

\* the loop body that takes the first of the two results
NearestNeighborBodyFirst(input, kdtree, i) ==
    LET knn == SearchKNN(kdtree, input[i + 1], 2)
    IN  IF knn.count <= 1 THEN 0 ELSE Sqrt(knn.dists[1], 1)

\* body of the loop of ComputePointCloudNearestNeighborDistance, iteration i
NearestNeighborBody(input, kdtree, i) ==
    LET knn == SearchKNN(kdtree, input[i + 1], 2)
    IN  IF knn.count <= 1 THEN 0 ELSE Sqrt(knn.dists[2], 1)

\* the running sum of the loop over the points, from point i on
RECURSIVE SumFrom(_, _)
SumFrom(terms, i) ==
    IF i > Len(terms) THEN 0 ELSE terms[i] + SumFrom(terms, i + 1)

\* ComputePointCloudMeanAndCovariance: the mean is mean / mden and the
\* covariance is cov / cden (the nine cumulants divided by the point count)
ComputePointCloudMeanAndCovariance(pts) ==
    IF Len(pts) = 0
    THEN [mean |-> <<0, 0, 0>>, mden |-> 1,
          cov |-> << <<1, 0, 0>>, <<0, 1, 0>>, <<0, 0, 1>> >>, cden |-> 1]
    ELSE
      LET n == Len(pts)
          c1(a) == SumFrom([i \in 1..n |-> pts[i][a]], 1)
          c2(a, b) == SumFrom([i \in 1..n |-> pts[i][a] * pts[i][b]], 1)
      IN  [mean |-> <<c1(1), c1(2), c1(3)>>, mden |-> n,
           cov |-> [a \in 1..3 |-> [b \in 1..3 |->
                      n * c2(Min(a, b), IF a <= b THEN b ELSE a) - c1(a) * c1(b)]],
           cden |-> n * n]

Det3(m) ==
      m[1][1] * (m[2][2] * m[3][3] - m[2][3] * m[3][2])
    - m[1][2] * (m[2][1] * m[3][3] - m[2][3] * m[3][1])
    + m[1][3] * (m[2][1] * m[3][2] - m[2][2] * m[3][1])

\* cofactor matrix transposed: m.inverse() is Adj3(m) / Det3(m)
Adj3(m) ==
    LET nx(a) == (a % 3) + 1
        cof(r, c) == m[nx(r)][nx(c)] * m[nx(nx(r))][nx(nx(c))]
                       - m[nx(r)][nx(nx(c))] * m[nx(nx(r))][nx(c)]
    IN  [a \in 1..3 |-> [b \in 1..3 |-> cof(b, a)]]

\* body of the loop of ComputePointCloudMahalanobisDistance, iteration i:
\* sqrt(p^T * cov_inv * p) with p = points[i] - mean
MahalanobisBody(input, mc, i) ==
    LET v == [a \in 1..3 |-> mc.mden * input[i + 1][a] - mc.mean[a]]
        adj == Adj3(mc.cov)
        det == Det3(mc.cov)
        quad == LET row(a) == adj[a][1] * v[1] + adj[a][2] * v[2] + adj[a][3] * v[3]
                IN  v[1] * row(1) + v[2] * row(2) + v[3] * row(3)
        num == quad * mc.cden
        den == det * mc.mden * mc.mden
    IN  IF det = 0 \/ (num < 0) # (den < 0) THEN Garbage
        ELSE IF den < 0 THEN Sqrt(-num, -den) ELSE Sqrt(num, den)

Functions == {"ToPointCloud", "Mahalanobis", "NearestNeighbor"}

\* iteration i of the loop of the running function
Body(j, i) ==
    CASE j.fn = "ToPointCloud"    -> ToPointCloudBody(j.input, j.kdtree, i)
      [] j.fn = "Mahalanobis"     -> MahalanobisBody(j.input, j.mc, i)
      [] j.fn = "NearestNeighbor" -> NearestNeighborBody(j.input, j.kdtree, i)

Loc(name, i) == [loc |-> name, idx |-> i]

\* the locations iteration i reads
Reads(j, i) ==
    {Loc("points", i)} \cup
    (IF j.fn = "Mahalanobis" THEN {Loc("mean", -1), Loc("cov_inv", -1)}
     ELSE {Loc("kdtree", -1)})

\* schedule(static): the iterations are cut into NumWorkers contiguous chunks
ChunkSize(n) == (n + NumWorkers - 1) \div NumWorkers

ChunkLo(w, n) == Min(n, w * ChunkSize(n))

\* no work sharing: every worker runs on to the end of the loop
ChunkHiToEnd(w, n) == n

ChunkHi(w, n) == Min(n, (w + 1) * ChunkSize(n))

NoJob == [state |-> "idle"]

statIdle ==
    /\ job = NoJob
    /\ out = <<>>
    /\ nextIdx = [w \in Workers |-> 0]
    /\ writers = <<>>
    /\ touched = [rd |-> {}, wr |-> {}]

InitStatStore ==
    /\ \E a \in SeqsUpTo(PointDomain, MaxPts), b \in SeqsUpTo(TargetDomain, MaxTargetPts) :
          store = [o \in Objs \cup {"R"} |->
                     IF o = "A" THEN PointsOnly(a)
                     ELSE IF o = "B" THEN PointsOnly(b) ELSE EmptyCloud]
    /\ op = NoOp

\* the function is called: the output vector is sized and zeroed, the index
\* or the moments are built, and the team of workers starts on the loop
StartAct(fn, source, target) ==
    /\ job.state = "idle"
    /\ fn = "ToPointCloud" \/ target = source
    /\ LET input == store[source].points
           n == Len(input)
       IN  /\ job' = [state |-> "running", fn |-> fn, source |-> source,
                      target |-> target, input |-> input,
                      kdtree |-> IF fn = "Mahalanobis" THEN <<>>
                                 ELSE store[target].points,
                      mc |-> IF fn = "Mahalanobis"
                             THEN ComputePointCloudMeanAndCovariance(input)
                             ELSE <<>>]
           /\ out' = [i \in 1..n |-> 0]
           /\ nextIdx' = [w \in Workers |-> ChunkLo(w, n)]
           /\ writers' = [i \in 1..n |-> {}]
           /\ touched' = [rd |-> {}, wr |-> {}]
    /\ UNCHANGED <<psVars, devVars>>

\* worker w executes its next iteration
StepAct(w) ==
    /\ job.state = "running"
    /\ nextIdx[w] < ChunkHi(w, Len(job.input))
    /\ LET i == nextIdx[w]
       IN  /\ out' = [out EXCEPT ![i + 1] = Body(job, i)]
           /\ writers' = [writers EXCEPT ![i + 1] = @ \cup {w}]
           /\ touched' = [rd |-> touched.rd \cup Reads(job, i),
                          wr |-> touched.wr \cup {Loc("out", i)}]
           /\ nextIdx' = [nextIdx EXCEPT ![w] = i + 1]
    /\ UNCHANGED job
    /\ UNCHANGED <<psVars, devVars>>

\* all workers have left the loop: the function returns the vector
ReturnAct ==
    /\ job.state = "running"
    /\ \A w \in Workers : nextIdx[w] >= ChunkHi(w, Len(job.input))
    /\ job' = [job EXCEPT !.state = "done"]
    /\ UNCHANGED <<out, nextIdx, writers, touched>>
    /\ UNCHANGED <<psVars, devVars>>

\* the loop run by one thread, iterations in order
RECURSIVE SeqLoop(_, _, _)
SeqLoop(j, o, i) ==
    IF i >= Len(j.input) THEN o
    ELSE SeqLoop(j, [o EXCEPT ![i + 1] = Body(j, i)], i + 1)

----------------------------------------------------------------------------
(* Specifications *)

\* point-set operations on the clouds A and B
InitPointSets == InitPS /\ devIdle /\ statIdle

NextPointSets ==
    \/ \E o \in Objs : ClearAct(o)
    \/ \E o \in Objs, M \in Transformations : TransformAct(o, M)
    \/ \E this \in Objs, cloud \in Objs : PlusEqAct(this, cloud)
    \/ \E this \in Objs, cloud \in Objs : PlusAct(this, cloud)

SpecPointSets == InitPointSets /\ [][NextPointSets]_vars

\* device-mirror calls on the cloud A
InitDevice == InitDevStore /\ devIdle /\ statIdle

NextDevice ==
    \/ \E a \in ArraySet : UpdateOneAct(a)
    \/ \E a \in ArraySet : ReleaseOneAct(a)
    \/ UpdateAllAct
    \/ ReleaseAllAct

SpecDevice == InitDevice /\ [][NextDevice]_vars

\* one statistics call, its loop run by the team of workers
InitStatistics == InitStatStore /\ devIdle /\ statIdle

NextStatistics ==
    \/ \E fn \in Functions, source \in Objs, target \in Objs : StartAct(fn, source, target)
    \/ \E w \in Workers : StepAct(w)
    \/ ReturnAct

SpecStatistics == InitStatistics /\ [][NextStatistics]_vars

----------------------------------------------------------------------------
(* Properties *)

AllObjs == Objs \cup {"R"}

LengthInvariant(pc) ==
    /\ Len(pc.normals) \in {0, Len(pc.points)}
    /\ Len(pc.colors) \in {0, Len(pc.points)}

\* the attribute rule of A += B, on the clouds a, b before and r after
AttributeRule(a, b, r) ==
    /\ HasNormals(r) <=> (HasNormals(b) /\ (HasNormals(a) \/ IsEmpty(a)))
    /\ HasColors(r) <=> (HasColors(b) /\ (HasColors(a) \/ IsEmpty(a)))

\* C1 as stated: after every A += B (B empty and A empty included) the result
\* has normals iff B has normals and (A had normals or A was empty); the same
\* for colors.
C1_AttributeRuleAlways ==
    [][op'.name = "PlusEq" =>
         AttributeRule(store[op'.this], store[op'.cloud], store'[op'.this])]_vars

\* C1 amended: after A += B with B not empty the result has normals iff B has
\* normals and (A had normals or A was empty), the same for colors; with B
\* empty A is left as it was, attributes included.
C1_AttributeRule ==
    [][op'.name = "PlusEq" =>
         IF IsEmpty(store[op'.cloud])
         THEN store'[op'.this] = store[op'.this]
         ELSE AttributeRule(store[op'.this], store[op'.cloud], store'[op'.this])]_vars

\* an empty A has taken the normals of B, which has no colors
C1_Witness ==
    /\ op.name = "PlusEq" /\ op.this = "A" /\ op.cloud = "B"
    /\ store["A"] = store["B"]
    /\ HasNormals(store["A"]) /\ ~HasColors(store["A"])

\* the sequence r is the sequence a followed by a second copy of a
Doubled(a, r) ==
    /\ Len(r) = 2 * Len(a)
    /\ \A i \in 1..Len(a) : r[i] = a[i] /\ r[Len(a) + i] = a[i]

\* C2: A += A on N points gives 2N points, point i and point N+i both the
\* original point i, and the same for the normals and the colors A carries.
C2_SelfAppend ==
    [][op'.name = "PlusEq" /\ op'.this = op'.cloud =>
         LET a == store[op'.this]
             r == store'[op'.this]
         IN  /\ Doubled(a.points, r.points)
             /\ HasNormals(a) => Doubled(a.normals, r.normals)
             /\ HasColors(a) => Doubled(a.colors, r.colors)]_vars

\* a cloud of two points with normals and colors has been appended to itself
C2_Witness ==
    /\ op.name = "PlusEq" /\ op.this = "A" /\ op.cloud = "A"
    /\ Len(store["A"].points) = 4
    /\ store["A"].points[1] # store["A"].points[2]
    /\ HasNormals(store["A"]) /\ HasColors(store["A"])

\* C8: every sequence of Clear, Transform, += (on another or the same cloud)
\* and + keeps len(normals) and len(colors) in {0, len(points)} on every cloud.
C8_LengthInvariant == \A o \in AllObjs : LengthInvariant(store[o])

\* an append has dropped the normals of a cloud that keeps its colors
C8_Witness ==
    /\ op.name = "PlusEq" /\ op.this = "A" /\ op.cloud = "B"
    /\ Len(store["A"].points) > Len(store["B"].points)
    /\ Len(store["B"].points) > 0
    /\ Len(store["A"].normals) = 0
    /\ Len(store["A"].colors) = Len(store["A"].points)

\* C3 as stated: a release whose cudaFree does not fail (the handle was null,
\* or the buffer was freed) returns true and leaves the handle null.
C3_ReleaseSucceeds ==
    call.name = "ReleaseOne" /\ call.free # "fail" =>
        call.ret = TRUE /\ d_handle[call.arr] = NULL

\* C4 as stated: a refresh returns false when the allocation or the copy
\* fails, and true when free, allocation and copy all succeed.
C4_RefreshResult ==
    call.name = "UpdateOne" =>
        /\ call.malloc = "fail" \/ call.copy = "fail" => call.ret = FALSE
        /\ call.free # "fail" /\ call.malloc = "ok" /\ call.copy = "ok" =>
               call.ret = TRUE

\* C5 as stated: when the free, the allocation or the copy of a refresh fails,
\* the handle is null on return.
C5_NullOnFailure ==
    call.name = "UpdateOne"
      /\ (call.free = "fail" \/ call.malloc = "fail" \/ call.copy = "fail") =>
        d_handle[call.arr] = NULL

\* C6 as stated: refresh-all attempts points, normals and colors whatever the
\* earlier outcomes, and returns the AND of the three outcomes.
C6_RefreshAllAttemptsAll ==
    call.name = "UpdateAll" =>
        /\ call.attempted = Arrays
        /\ call.ret = (\A i \in 1..Len(call.results) : call.results[i])

\* C7: after any sequence of refresh and release calls, with any device call
\* failing, every live device buffer is the one its array's handle refers to
\* (so at most one per array, none leaked) and no buffer was freed twice.
C7_OneLiveBufferPerArray ==
    /\ ~doubleFree
    /\ \A b \in Buffers :
          heap[b].live => heap[b].owner \in ArraySet /\ d_handle[heap[b].owner] = b

\* a refresh has freed the prior buffer of its array and holds a new one,
\* while another array holds a buffer too
C7_Witness ==
    /\ call.name = "UpdateOne" /\ call.free = "ok" /\ call.malloc = "ok"
    /\ \E a \in ArraySet : a # call.arr /\ d_handle[a] # NULL

\* the least squared distance from point i to a point at another index
MinOtherSq(pts, i) ==
    LET others == {SqDist(pts[i], pts[j]) : j \in (1..Len(pts)) \ {i}}
    IN  CHOOSE d \in others : \A e \in others : d <= e

\* C9: ComputePointCloudNearestNeighborDistance returns in slot i the distance
\* from point i to the nearest point at a different index, and 0 for a cloud
\* of one point; ComputePointCloudToPointCloudDistance(A, A) returns 0 in
\* every slot.
C9_NearestNeighbor ==
    job.state = "done" =>
        /\ job.fn = "NearestNeighbor" =>
             \A i \in 1..Len(job.input) :
                 out[i] = IF Len(job.input) >= 2
                          THEN Sqrt(MinOtherSq(job.input, i), 1) ELSE 0
        /\ job.fn = "ToPointCloud" /\ job.source = job.target =>
             \A i \in 1..Len(job.input) : out[i] = 0

\* a cloud with two coincident points and a third one apart
C9_Witness ==
    /\ job.state = "done" /\ job.fn = "NearestNeighbor"
    /\ Len(job.input) = 3
    /\ job.input[1] = job.input[2] /\ job.input[3] # job.input[1]
    /\ out[1] = 0 /\ out[2] = 0 /\ out[3] > 0

\* C10: under every interleaving each output slot is written by one worker
\* only, the workers read no location a worker writes, and the vector the
\* function returns is the one the sequential loop produces.
C10_ParallelLoop ==
    /\ job.state # "idle" =>
         /\ \A i \in 1..Len(out) : Cardinality(writers[i]) <= 1
         /\ touched.rd \cap touched.wr = {}
    /\ job.state = "done" =>
         /\ \A i \in 1..Len(out) : Cardinality(writers[i]) = 1
         /\ out = SeqLoop(job, [i \in 1..Len(job.input) |-> 0], 0)

\* a Mahalanobis call on four points in general position has returned, both
\* workers having written slots
C10_Witness ==
    /\ job.state = "done" /\ job.fn = "Mahalanobis"
    /\ Len(out) >= 4
    /\ Det3(job.mc.cov) # 0
    /\ \E i \in 1..Len(out) : out[i] > SqrtScale
    /\ \A w \in Workers : \E i \in 1..Len(out) : writers[i] = {w}

====
